---- MODULE Spec2Model ----
(***************************************************************************)
(* A model of @felinto-dev/http-pub-sub (src/index.js): listenFrom polls   *)
(* an HTTP endpoint on a setInterval timer until an acceptable message for *)
(* the key is found, the overall timeout elapses, or a critical error is   *)
(* hit.  Time is the wall clock Date.now() in milliseconds; the timer      *)
(* callback up to its await, and its continuation after the await, are     *)
(* each one atomic step of the single-threaded event loop.                 *)
(***************************************************************************)
EXTENDS Integers, Sequences, FiniteSets, TLC

(***************************************************************************)
(* Bounds of the model.                                                    *)
(***************************************************************************)
\* the wall clock is not advanced past this value (ms)
MaxClock == 12000
\* a fetch answers within this many clock quanta of its start, or never
MaxLatency == 3
\* a timer callback runs at most this many clock quanta after it is due
MaxLate == 1

(***************************************************************************)
(* Program constants.                                                      *)
(***************************************************************************)
MsPerSec == 1000
DefaultInterval == 10
DefaultRequestTimeout == 5000

\* the granularity with which the model advances Date.now()
Quantum == MsPerSec \div 2

(***************************************************************************)
(* JavaScript values: undefined, strings, numbers and objects, with the    *)
(* truthiness, typeof and || of the language.                              *)
(***************************************************************************)
Undefined == [t |-> "undefined", s |-> "", n |-> 0]
Str(x) == [t |-> "string", s |-> x, n |-> 0]
Num(x) == [t |-> "number", s |-> "", n |-> x]
Obj(x) == [t |-> "object", s |-> x, n |-> 0]

TypeOf(v) == v.t

Falsy(v) ==
    \/ v.t = "undefined"
    \/ v.t = "string" /\ v.s = ""
    \/ v.t = "number" /\ v.n = 0

\* a || b
OrElse(a, b) == IF Falsy(a) THEN b ELSE a

\* String.prototype.includes, on a message held as its sequence of words
Includes(message, word) == \E i \in DOMAIN message : message[i] = word

(***************************************************************************)
(* The inputs of one call: key, options and the environment variable.      *)
(***************************************************************************)
Endpoint == Str("http://bridge")

BaseOptions ==
    [type |-> Str("t"), timeout |-> Num(3), retroBack |-> Num(1),
     interval |-> Num(1), debug |-> FALSE, endpoint |-> Endpoint,
     requestTimeout |-> Undefined]

\* well-formed calls
ValidCalls ==
    { [key |-> Str("k1"),
       env |-> Undefined,
       options |-> [BaseOptions EXCEPT !.timeout = Num(to), !.retroBack = Num(rb),
                                       !.interval = iv, !.debug = dbg,
                                       !.requestTimeout = rt]] :
        to \in {2, 3}, rb \in {1, 2},
        iv \in {Num(1), Num(2)},
        dbg \in BOOLEAN, rt \in {Undefined, Num(MsPerSec)} }

\* calls with one argument missing or out of its range
OddCalls ==
    { [key |-> k, env |-> Undefined, options |-> BaseOptions] :
        k \in {Undefined, Str(""), Num(7)} }
    \cup { [key |-> Str("k1"), env |-> Undefined,
            options |-> [BaseOptions EXCEPT !.type = ty]] :
        ty \in {Undefined, Str(""), Num(7)} }
    \cup { [key |-> Str("k1"), env |-> Undefined,
            options |-> [BaseOptions EXCEPT !.timeout = to]] :
        to \in {Undefined, Str("3"), Num(0), Num(-1)} }
    \cup { [key |-> Str("k1"), env |-> Undefined,
            options |-> [BaseOptions EXCEPT !.retroBack = rb]] :
        rb \in {Undefined, Str("1"), Num(0), Num(-1)} }
    \cup { [key |-> Str("k1"), env |-> Undefined,
            options |-> [BaseOptions EXCEPT !.interval = iv, !.debug = dbg]] :
        iv \in {Undefined, Num(0), Num(-1)}, dbg \in BOOLEAN }
    \cup { [key |-> Str("k1"), env |-> e,
            options |-> [BaseOptions EXCEPT !.endpoint = ep]] :
        e \in {Undefined, Str(""), Str("http://env")},
        ep \in {Undefined, Str(""), Num(7)} }
    \cup { [key |-> Str("k1"), env |-> Undefined,
            options |-> [BaseOptions EXCEPT !.timeout = Undefined,
                                            !.retroBack = Undefined,
                                            !.interval = Undefined]] }
    \cup { [key |-> Str("parse"), env |-> Undefined,
            options |-> [BaseOptions EXCEPT !.debug = dbg]] : dbg \in BOOLEAN }

Calls == ValidCalls \cup OddCalls

(***************************************************************************)
(* Errors are held by their message, a sequence of words.                  *)
(***************************************************************************)
NoError == << >>

\* lines 26-40: the argument checks, in order; NoError when all pass
ArgumentError(key, options) ==
    IF Falsy(key) \/ TypeOf(key) # "string"
    THEN <<"Key", "deve", "ser", "uma", "string", "nao", "vazia">>
    ELSE IF Falsy(options.type) \/ TypeOf(options.type) # "string"
    THEN <<"options.type", "deve", "ser", "uma", "string", "nao", "vazia">>
    ELSE IF Falsy(options.timeout) \/ TypeOf(options.timeout) # "number"
    THEN <<"options.timeout", "deve", "ser", "um", "numero", "maior", "que", "0">>
    ELSE IF Falsy(options.retroBack) \/ TypeOf(options.retroBack) # "number"
    THEN <<"options.retroBack", "deve", "ser", "um", "numero", "maior", "que", "0">>
    ELSE NoError

\* lines 59-60: the interval floor
ClampInterval(interval) == IF interval < 1 THEN 1 ELSE interval

\* lines 43-64: the effective configuration of a call whose arguments passed
Config(options, env) ==
    [interval |-> ClampInterval(OrElse(options.interval, Num(DefaultInterval)).n),
     debug |-> options.debug,
     endpoint |-> OrElse(options.endpoint, env),
     requestTimeout |-> OrElse(options.requestTimeout, Num(DefaultRequestTimeout)).n,
     type |-> options.type.s,
     timeout |-> options.timeout.n,
     retroBack |-> options.retroBack.n]

\* lines 54-56
EndpointError(endpoint) ==
    IF Falsy(endpoint) THEN <<"Endpoint", "HTTP", "nao", "definido">> ELSE NoError

NoConfig ==
    [interval |-> 0, debug |-> FALSE, endpoint |-> Undefined, requestTimeout |-> 0,
     type |-> "", timeout |-> 0, retroBack |-> 0]

(***************************************************************************)
(* What the endpoint may answer.  A body is malformed text, the JSON value *)
(* null, or a JSON object that holds an entry under the key or does not.   *)
(***************************************************************************)
Entry(type, data, hasMeta, timestamp, expiration) ==
    [present |-> TRUE, type |-> type, data |-> data, hasMeta |-> hasMeta,
     timestamp |-> timestamp, expiration |-> expiration]

NoEntry ==
    [present |-> FALSE, type |-> Undefined, data |-> Undefined, hasMeta |-> FALSE,
     timestamp |-> Undefined, expiration |-> Undefined]

\* entries with every field there and numeric meta
FullEntries ==
    { Entry(Str(ty), d, TRUE, Num(ts), Num(ex)) :
        ty \in {"t", "other"}, d \in {Str("X"), Num(0), Obj("url")},
        ts \in 0..2, ex \in 0..1 }

\* entries with a field missing or a non-numeric meta field
PartEntries ==
    { Entry(Undefined, Str("X"), TRUE, Num(1), Num(1)),
      Entry(Str("t"), Undefined, TRUE, Num(1), Num(1)),
      Entry(Str("t"), Str("X"), FALSE, Undefined, Undefined),
      Entry(Str("t"), Str("X"), TRUE, Str("1"), Num(1)),
      Entry(Str("t"), Str("X"), TRUE, Num(1), Undefined) }

Bodies ==
    { [kind |-> "malformed", entry |-> NoEntry],
      [kind |-> "null", entry |-> NoEntry],
      [kind |-> "object", entry |-> NoEntry] }
    \cup { [kind |-> "object", entry |-> e] : e \in FullEntries \cup PartEntries }

\* the responses: a 200 with any body, and other statuses, inside and outside
\* the 2xx range, with either status text and a body that is malformed or one
\* that holds an entry
Responses ==
    { [statusCode |-> 200, statusMessage |-> <<"OK">>, data |-> b] : b \in Bodies }
    \cup { [statusCode |-> sc, statusMessage |-> sm, data |-> b] :
            sc \in {204, 304, 500},
            sm \in { <<"Not", "OK">>, <<"Invalid", "JSON">> },
            b \in { [kind |-> "malformed", entry |-> NoEntry],
                    [kind |-> "object",
                     entry |-> Entry(Str("t"), Str("X"), TRUE, Num(1), Num(1))] } }

SocketErrors == { <<"connect", "ECONNREFUSED">>, <<"Parse", "Error">> }

(***************************************************************************)
(* makeHttpRequest (lines 201-247): how each event of the request settles  *)
(* the promise the cycle awaits.                                           *)
(***************************************************************************)
Fulfilled(body) == [ok |-> TRUE, body |-> body, error |-> NoError]
Failed(error) == [ok |-> FALSE, body |-> [kind |-> "none", entry |-> NoEntry],
                  error |-> error]

\* line 203: new URL(url) accepts the endpoints of the model that are strings
ValidUrl(url) == TypeOf(url) = "string"

\* line 203: new URL(url) throws inside the executor, which rejects the promise
OnInvalidUrl == Failed(<<"Invalid", "URL">>)

\* lines 227-233: res.on('end')
OnEnd(statusCode, statusMessage, data) ==
    IF statusCode >= 200 /\ statusCode < 300
    THEN Fulfilled(data)
    ELSE Failed(<<"HTTP", ToString(statusCode)>> \o statusMessage)

\* lines 236-238: req.on('error')
OnError(message) == Failed(<<"Erro", "de", "rede">> \o message)

\* lines 240-243: req.on('timeout')
OnTimeout(timeout) ==
    Failed(<<"Timeout", "da", "requisicao", ToString(timeout), "ms">>)

(***************************************************************************)
(* The continuation of a cycle after the await (lines 98-184).             *)
(***************************************************************************)
\* line 99: the message of the SyntaxError JSON.parse throws on malformed text
JsonSyntaxError == <<"Unexpected", "token", "in", "JSON", "at", "position", "0">>

\* lines 102 and 106: the TypeError thrown when the parsed value is null
NullError(key, debug) ==
    IF debug
    THEN <<"Cannot", "convert", "undefined", "or", "null", "to", "object">>
    ELSE <<"Cannot", "read", "properties", "of", "null", "reading", key.s>>

\* lines 98-106: the error thrown before the entry is looked at, if any
Thrown(result, key, debug) ==
    IF ~result.ok THEN result.error
    ELSE IF result.body.kind = "malformed" THEN JsonSyntaxError
    ELSE IF result.body.kind = "null" THEN NullError(key, debug)
    ELSE NoError

\* lines 116-118
StructureInvalid(message) ==
    \/ Falsy(message.type)
    \/ Falsy(message.data)
    \/ ~message.hasMeta
    \/ TypeOf(message.timestamp) # "number"
    \/ TypeOf(message.expiration) # "number"

\* line 126
TypeMismatch(message, type) ==
    ~(TypeOf(message.type) = "string" /\ message.type.s = type)

\* lines 134-138
Expired(now, message) ==
    LET messageTime == message.timestamp.n
        expirationTime == messageTime + message.expiration.n
    IN  now > expirationTime

\* OutsideRetroBack, were the window one second too wide
OutsideRetroBackWide(now, message, retroBack) ==
    LET retroBackLimit == now - retroBack - 1
    IN  message.timestamp.n < retroBackLimit

\* lines 146-147
OutsideRetroBack(now, message, retroBack) ==
    LET retroBackLimit == now - retroBack
    IN  message.timestamp.n < retroBackLimit

\* Critical, were only the word parse looked for
CriticalParseOnly(error) == Includes(error, "parse")

\* line 177
Critical(error) == Includes(error, "JSON") \/ Includes(error, "parse")

\* Math.round(ms / 1000 * 10) / 10, held in tenths of a second
RoundTenths(ms) == (ms + 50) \div 100

\* line 133
NowSeconds(ms) == ms \div MsPerSec

NoOutcome ==
    [kind |-> "None", data |-> Undefined, timestamp |-> 0, expiration |-> 0,
     elapsedTime |-> 0, attempts |-> 0, error |-> NoError]

SuccessOutcome(message, elapsedMs, n) ==
    [kind |-> "Success", data |-> message.data,
     timestamp |-> message.timestamp.n, expiration |-> message.expiration.n,
     elapsedTime |-> RoundTenths(elapsedMs), attempts |-> n, error |-> NoError]

\* TimeoutOutcome, were the tick that finds the budget spent counted as an attempt
TimeoutOutcomeCounted(elapsedMs, n) ==
    [NoOutcome EXCEPT !.kind = "Timeout", !.elapsedTime = RoundTenths(elapsedMs),
                      !.attempts = n + 1, !.error = <<"Timeout", "atingido">>]

TimeoutOutcome(elapsedMs, n) ==
    [NoOutcome EXCEPT !.kind = "Timeout", !.elapsedTime = RoundTenths(elapsedMs),
                      !.attempts = n, !.error = <<"Timeout", "atingido">>]

RejectOutcome(error) == [NoOutcome EXCEPT !.kind = "Rejected", !.error = error]

\* lines 98-184: what the continuation does: nothing, resolve or reject
Continuation(result, key, cfg, nowMs, elapsedMs, n) ==
    LET e == Thrown(result, key, cfg.debug)
        message == result.body.entry
        now == NowSeconds(nowMs)
    IN  IF e # NoError
        THEN IF Critical(e)
             THEN RejectOutcome(<<"Erro", "ao", "processar", "resposta">> \o e)
             ELSE NoOutcome
        ELSE IF ~message.present THEN NoOutcome
        ELSE IF StructureInvalid(message) THEN NoOutcome
        ELSE IF TypeMismatch(message, cfg.type) THEN NoOutcome
        ELSE IF Expired(now, message) THEN NoOutcome
        ELSE IF OutsideRetroBack(now, message, cfg.retroBack) THEN NoOutcome
        ELSE SuccessOutcome(message, elapsedMs, n)

(***************************************************************************)
(* The state of one call.                                                  *)
(***************************************************************************)
VARIABLES
    call,        \* the arguments and the environment of the call
    pc,          \* "init" before listenFrom runs, "polling" once the timer
                 \* is set, "threw" when listenFrom threw before that
    config,      \* line 43
    startTime,   \* line 66
    attempts,    \* line 68
    timerActive, \* whether intervalId is armed (set line 76, cleared 81/155/178)
    nextFire,    \* the instant the timer callback is next due
    inFlight,    \* the requests awaited at line 98: their cycle and start
    clock,       \* Date.now()
    promise,     \* the state of the promise listenFrom returns
    delivered,   \* the outcomes the caller has been handed, in order
    settleCalls, \* how many times resolve or reject has been called
    requests,    \* how many times makeHttpRequest has been called (line 98)
    skipped,     \* whether some cycle found no acceptable entry in a JSON object
    last         \* what the handler run by the latest step saw and did

vars == <<call, pc, config, startTime, attempts, timerActive, nextFire, inFlight,
          clock, promise, delivered, settleCalls, requests, skipped, last>>

NoLast ==
    [op |-> "none", elapsed |-> 0, fetched |-> FALSE, settledBefore |-> FALSE,
     result |-> Failed(NoError), nowMs |-> 0, did |-> "None", cycle |-> 0,
     skippedBefore |-> FALSE]

Init ==
    /\ call \in Calls
    /\ clock \in {0, Quantum}
    /\ pc = "init"
    /\ config = NoConfig
    /\ startTime = 0
    /\ attempts = 0
    /\ timerActive = FALSE
    /\ nextFire = 0
    /\ inFlight = {}
    /\ promise = NoOutcome
    /\ delivered = << >>
    /\ settleCalls = 0
    /\ requests = 0
    /\ skipped = FALSE
    /\ last = NoLast

\* Settles, were a later resolve or reject to replace the outcome
SettlesAgain(p) == TRUE

\* a promise is settled by the first resolve or reject only
Settles(p) == p.kind = "None"

\* resolve(outcome) or reject(outcome) on the returned promise
Deliver(outcome) ==
    /\ settleCalls' = settleCalls + 1
    /\ promise' = IF Settles(promise) THEN outcome ELSE promise
    /\ delivered' = IF Settles(promise) THEN Append(delivered, outcome) ELSE delivered

\* FirstDue, were the first tick due after half an interval
FirstDueHalfway(now, interval) == now + (interval * MsPerSec) \div 2

\* FirstDue, were the first attempt made at once, as the comment at line 187 says
FirstDueAtOnce(now, interval) == now

\* lines 76 and 185: setInterval runs the callback first one interval from now
FirstDue(now, interval) == now + interval * MsPerSec

\* lines 25-76 and 185: the synchronous part of listenFrom
ListenFrom ==
    /\ pc = "init"
    /\ LET argError == ArgumentError(call.key, call.options)
           cfg == Config(call.options, call.env)
       IN  IF argError # NoError
           THEN /\ Deliver(RejectOutcome(argError))
                /\ pc' = "threw"
                /\ UNCHANGED <<config, startTime, timerActive, nextFire>>
           ELSE IF EndpointError(cfg.endpoint) # NoError
           THEN /\ Deliver(RejectOutcome(EndpointError(cfg.endpoint)))
                /\ pc' = "threw"
                /\ UNCHANGED <<config, startTime, timerActive, nextFire>>
           ELSE /\ config' = cfg
                /\ startTime' = clock
                /\ timerActive' = TRUE
                /\ nextFire' = FirstDue(clock, cfg.interval)
                /\ pc' = "polling"
                /\ UNCHANGED <<promise, delivered, settleCalls>>
    /\ last' = NoLast
    /\ UNCHANGED <<call, attempts, inFlight, clock, requests, skipped>>

\* TimedOut, were the budget given one second of grace
TimedOutAfterGrace(elapsed, timeoutMs) == elapsed >= timeoutMs + MsPerSec

\* TimedOut, were the budget compared with > instead of >=
TimedOutStrict(elapsed, timeoutMs) == elapsed > timeoutMs

\* line 80
TimedOut(elapsed, timeoutMs) == elapsed >= timeoutMs

\* lines 76-89: the timer callback when the budget is spent
TimeoutBranch ==
    /\ timerActive
    /\ clock >= nextFire
    /\ LET elapsed == clock - startTime
       IN  /\ TimedOut(elapsed, config.timeout * MsPerSec)
           /\ timerActive' = FALSE
           /\ Deliver(TimeoutOutcome(elapsed, attempts))
           /\ last' = [NoLast EXCEPT !.op = "tick", !.elapsed = elapsed,
                                     !.settledBefore = ~Settles(promise),
                                     !.did = "Timeout"]
    /\ UNCHANGED <<call, pc, config, startTime, attempts, nextFire, inFlight, clock,
                   requests, skipped>>

\* Incremented, were the counter also advanced for the retry
IncrementedTwice(n) == n + 2

\* line 91: attempts++
Incremented(n) == n + 1

\* lines 76-98: the timer callback up to its await
FetchBranch ==
    /\ timerActive
    /\ clock >= nextFire
    /\ LET elapsed == clock - startTime
       IN  /\ ~TimedOut(elapsed, config.timeout * MsPerSec)
           /\ attempts' = Incremented(attempts)
           /\ requests' = requests + 1
           /\ inFlight' = inFlight \cup {[id |-> requests + 1, start |-> clock]}
           /\ last' = [NoLast EXCEPT !.op = "tick", !.elapsed = elapsed,
                                     !.fetched = TRUE,
                                     !.settledBefore = ~Settles(promise)]
    /\ nextFire' = clock + config.interval * MsPerSec
    /\ UNCHANGED <<call, pc, config, startTime, timerActive, clock, promise,
                   delivered, settleCalls, skipped>>

\* TimerAfterCycle, were the timer cleared in the catch block for every error
TimerClearedAlways(outcome, active) == FALSE

\* TimerAfterCycle, were clearInterval missing from the critical-error branch
TimerKeptOnReject(outcome, active) ==
    IF outcome.kind = "Success" THEN FALSE ELSE active

\* lines 155 and 178: the timer after a cycle's continuation
TimerAfterCycle(outcome, active) == IF outcome.kind = "None" THEN active ELSE FALSE

\* lines 98-184: the continuation of cycle f once its request gave result
Resume(f, result) ==
    LET outcome == Continuation(result, call.key, config, clock,
                                clock - startTime, attempts)
    IN  /\ inFlight' = inFlight \ {f}
        /\ timerActive' = TimerAfterCycle(outcome, timerActive)
        /\ IF outcome.kind = "None"
           THEN UNCHANGED <<promise, delivered, settleCalls>>
           ELSE Deliver(outcome)
        /\ last' = [NoLast EXCEPT !.op = "cycle", !.elapsed = clock - startTime,
                                  !.settledBefore = ~Settles(promise),
                                  !.result = result, !.nowMs = clock,
                                  !.did = outcome.kind, !.cycle = f.id,
                                  !.skippedBefore = skipped]
        /\ skipped' = (skipped \/ (result.ok /\ result.body.kind = "object"
                                              /\ outcome.kind = "None"))
        /\ UNCHANGED <<call, pc, config, startTime, attempts, nextFire, clock,
                       requests>>

Answerable(f) ==
    /\ ValidUrl(config.endpoint)
    /\ clock - f.start <= MaxLatency * Quantum

\* lines 202-203: the request of cycle f was never made, its URL being invalid
UrlError ==
    \E f \in inFlight :
        /\ ~ValidUrl(config.endpoint)
        /\ Resume(f, OnInvalidUrl)

\* an endpoint that never holds the key: the response of request f is {}
HttpEndEmpty ==
    \E f \in inFlight :
        /\ Answerable(f)
        /\ Resume(f, OnEnd(200, <<"OK">>, [kind |-> "object", entry |-> NoEntry]))

\* the response of request f ends
HttpEnd ==
    \E f \in inFlight, res \in Responses :
        /\ Answerable(f)
        /\ Resume(f, OnEnd(res.statusCode, res.statusMessage, res.data))

\* request f fails on the socket
HttpError ==
    \E f \in inFlight, message \in SocketErrors :
        /\ Answerable(f)
        /\ Resume(f, OnError(message))

\* request f reaches its own timeout
HttpTimeout ==
    \E f \in inFlight :
        /\ Answerable(f)
        /\ clock - f.start >= config.requestTimeout
        /\ Resume(f, OnTimeout(config.requestTimeout))

\* the wall clock moves on
Advance ==
    /\ pc = "polling"
    /\ clock + Quantum <= MaxClock
    /\ timerActive => clock + Quantum <= nextFire + MaxLate * Quantum
    /\ timerActive \/ \E f \in inFlight : clock - f.start < MaxLatency * Quantum
    /\ ValidUrl(config.endpoint) \/ inFlight = {}
    /\ clock' = clock + Quantum
    /\ last' = NoLast
    /\ UNCHANGED <<call, pc, config, startTime, attempts, timerActive, nextFire,
                   inFlight, promise, delivered, settleCalls, requests, skipped>>

Next ==
    \/ ListenFrom
    \/ TimeoutBranch
    \/ FetchBranch
    \/ HttpEnd
    \/ HttpError
    \/ HttpTimeout
    \/ UrlError
    \/ Advance

Spec == Init /\ [][Next]_vars

\* the steps when every response is a JSON object without the key
NextEmpty ==
    \/ ListenFrom
    \/ TimeoutBranch
    \/ FetchBranch
    \/ HttpEndEmpty
    \/ Advance

EmptySpec == Init /\ [][NextEmpty]_vars

\* the timer keeps firing and time keeps passing
FairSpec ==
    /\ Spec
    /\ WF_vars(ListenFrom)
    /\ WF_vars(TimeoutBranch)
    /\ WF_vars(FetchBranch)
    /\ WF_vars(UrlError)
    /\ WF_vars(Advance)

(***************************************************************************)
(* The claims.                                                             *)
(***************************************************************************)
TimeoutMs == config.timeout * MsPerSec

\* the arguments are well-formed in the sense of the specification
WellFormedArguments ==
    /\ TypeOf(call.key) = "string" /\ call.key.s # ""
    /\ TypeOf(call.options.type) = "string" /\ call.options.type.s # ""
    /\ TypeOf(call.options.timeout) = "number" /\ call.options.timeout.n > 0
    /\ TypeOf(call.options.retroBack) = "number" /\ call.options.retroBack.n > 0

\* the latest step was the continuation of a cycle
CycleRan == last.op = "cycle"
\* the entry that cycle found under the key, and its evaluation instant
CycleEntry == last.result.body.entry
CycleNow == last.nowMs \div MsPerSec

\* the three conditions of acceptance, on an entry with numeric meta fields
Acceptable(m, now) ==
    /\ m.type = Str(config.type)
    /\ now <= m.timestamp.n + m.expiration.n
    /\ m.timestamp.n >= now - config.retroBack

\* C1: at most one terminal outcome is ever handed to the caller, and a later
\* resolve or reject (a timeout tick, or a cycle completing late) neither
\* replaces it nor adds a second one.
C1_AtMostOneOutcome ==
    /\ Len(delivered) <= 1
    /\ promise = IF delivered = << >> THEN NoOutcome ELSE delivered[1]

\* a second resolve or reject was called after the outcome was handed over
C1_Witness ==
    /\ WellFormedArguments
    /\ Len(delivered) = 1
    /\ settleCalls >= 2

\* C2: while the timer keeps firing, an outcome is eventually delivered,
\* whatever the fetches do.
C2_EventuallyOutcome == <>(promise.kind # "None")

\* the Timeout outcome was delivered while a fetch was still in flight
C2_Witness ==
    /\ WellFormedArguments
    /\ promise.kind = "Timeout"
    /\ inFlight # {}

\* C3: a cycle resolves with Success only for an entry found under the key in
\* its own response whose type is the requested one, which has not expired and
\* which lies inside the retroBack window at the evaluation instant, and the
\* Success carries that entry's data and meta.
C3_SuccessOnlyIfAcceptable ==
    (CycleRan /\ last.did = "Success") =>
        /\ last.result.ok
        /\ last.result.body.kind = "object"
        /\ CycleEntry.present
        /\ TypeOf(CycleEntry.timestamp) = "number"
        /\ TypeOf(CycleEntry.expiration) = "number"
        /\ Acceptable(CycleEntry, CycleNow)
        /\ ~last.settledBefore =>
              /\ promise.kind = "Success"
              /\ promise.data = CycleEntry.data
              /\ promise.timestamp = CycleEntry.timestamp.n
              /\ promise.expiration = CycleEntry.expiration.n

\* a Success on both boundaries: now = timestamp + expiration and
\* timestamp = now - retroBack
C3_Witness ==
    /\ CycleRan
    /\ last.did = "Success"
    /\ promise.kind = "Success"
    /\ CycleNow = CycleEntry.timestamp.n + CycleEntry.expiration.n
    /\ CycleEntry.timestamp.n = CycleNow - config.retroBack

\* C4 (as claimed): in a well-formed call, a cycle that runs before any
\* outcome and finds under the key an entry with type, data and numeric meta
\* present that is acceptable resolves with Success, whatever the data.
C4_AcceptableAlwaysSucceeds ==
    ( /\ WellFormedArguments
      /\ CycleRan
      /\ ~last.settledBefore
      /\ last.result.ok
      /\ last.result.body.kind = "object"
      /\ CycleEntry.present
      /\ TypeOf(CycleEntry.type) # "undefined"
      /\ TypeOf(CycleEntry.data) # "undefined"
      /\ CycleEntry.hasMeta
      /\ TypeOf(CycleEntry.timestamp) = "number"
      /\ TypeOf(CycleEntry.expiration) = "number"
      /\ Acceptable(CycleEntry, CycleNow) )
    => /\ promise.kind = "Success"
       /\ promise.data = CycleEntry.data

\* C5 (as claimed): a call whose arguments are not well-formed throws before
\* the timer is set: no cycle, no fetch, no Success and no Timeout.
C5_InvalidArgumentsThrow ==
    (pc # "init" /\ ~WellFormedArguments) =>
        /\ pc = "threw"
        /\ promise.kind = "Rejected"
        /\ ~timerActive
        /\ attempts = 0
        /\ inFlight = {}

\* the latest step was a cycle whose response body was malformed JSON
MalformedSeen == CycleRan /\ last.result.ok /\ last.result.body.kind = "malformed"

\* C6 (as claimed): a malformed body in any cycle leaves the call rejected
\* with the parse error and the timer stopped.  Stated for the well-formed
\* calls that made a single attempt, whose fetches cannot overlap.
C6_MalformedAlwaysRejects ==
    (WellFormedArguments /\ attempts = 1 /\ MalformedSeen) =>
        /\ promise.kind = "Rejected"
        /\ Includes(promise.error, "JSON")
        /\ ~timerActive

\* C6 (amended): a malformed body in a cycle that completes before any outcome
\* was delivered rejects the call with the parse error in that cycle and stops
\* the timer; from then on the outcome stays and no fetch is initiated.
C6_MalformedRejectsIfPending ==
    /\ [](MalformedSeen /\ ~last.settledBefore =>
            /\ last.did = "Rejected"
            /\ promise.kind = "Rejected"
            /\ promise.error = <<"Erro", "ao", "processar", "resposta">> \o JsonSyntaxError
            /\ ~timerActive)
    /\ [][promise.kind = "Rejected" =>
            /\ promise' = promise
            /\ attempts' = attempts
            /\ inFlight' \subseteq inFlight
            /\ ~timerActive']_vars

\* a malformed body on a later attempt, with another cycle still in flight
C6_Witness ==
    /\ MalformedSeen
    /\ ~last.settledBefore
    /\ promise.kind = "Rejected"
    /\ attempts >= 2
    /\ inFlight # {}

\* C7 (as claimed): in a well-formed call, a cycle whose fetch failed
\* delivers nothing and leaves the timer armed, whatever the text of the
\* failure.
C7_FetchFailureTransient ==
    (WellFormedArguments /\ CycleRan /\ ~last.result.ok) =>
        /\ last.did = "None"
        /\ ~last.settledBefore => (promise.kind = "None" /\ timerActive)

\* C8: a tick at which elapsed >= timeoutSeconds starts no fetch, stops the
\* timer and resolves with Timeout; a tick at which elapsed < timeoutSeconds
\* starts a fetch; no fetch starts at an instant where elapsed >= timeoutSeconds.
C8_BudgetCheckedAtTick ==
    /\ last.op = "tick" =>
          IF last.elapsed >= TimeoutMs
          THEN /\ ~last.fetched
               /\ \A f \in inFlight : f.start # clock
               /\ ~timerActive
               /\ promise.kind # "None"
               /\ ~last.settledBefore => promise.kind = "Timeout"
          ELSE /\ last.fetched
               /\ [id |-> attempts, start |-> clock] \in inFlight
    /\ \A f \in inFlight : f.start - startTime < TimeoutMs

\* a tick exactly at elapsed = timeoutSeconds resolved with Timeout
C8_Witness ==
    /\ last.op = "tick"
    /\ last.elapsed = TimeoutMs
    /\ promise.kind = "Timeout"
    /\ attempts >= 1

\* C9: once an outcome is delivered the timer is stopped, the attempts
\* counter no longer changes and no fetch is initiated.
C9_NoCycleAfterOutcome ==
    /\ [](promise.kind # "None" => ~timerActive)
    /\ [][promise.kind # "None" =>
            /\ attempts' = attempts
            /\ inFlight' \subseteq inFlight
            /\ ~timerActive']_vars

\* time went on past the instant the next tick was due after a Success
C9_Witness ==
    /\ promise.kind = "Success"
    /\ attempts >= 1
    /\ clock > nextFire

\* C10 (as claimed): in a well-formed call with intervalSeconds >= 1 no two
\* fetches, each within its request timeout, are in flight at the same time.
C10_NoOverlap ==
    ( /\ WellFormedArguments
      /\ TypeOf(call.options.interval) = "number"
      /\ call.options.interval.n >= 1 ) =>
        Cardinality({f \in inFlight : clock - f.start <= config.requestTimeout}) <= 1

\* the latest step was the tick that found the budget spent, and it came, as
\* every tick before it, exactly when it was due
PunctualTimeout ==
    /\ last.op = "tick"
    /\ last.did = "Timeout"
    /\ last.elapsed = (attempts + 1) * config.interval * MsPerSec

C12_AttemptsCountFetches ==
    /\ [](attempts = requests)
    /\ [](pc = "polling" /\ promise.kind \in {"Timeout", "Success"} =>
            promise.attempts = requests)
    /\ [][/\ (requests' # requests) = (attempts' # attempts)
          /\ (requests' # requests) = (\E f \in inFlight' : f \notin inFlight)
          /\ requests' # requests =>
                /\ requests' = requests + 1
                /\ attempts' = attempts + 1
                /\ last'.op = "tick" /\ last'.fetched
          /\ (last'.op = "tick" /\ last'.did = "Timeout") => attempts' = attempts]_vars

\* a Success reporting the two fetches made, the second one still in flight
C12_Witness ==
    /\ promise.kind = "Success"
    /\ promise.attempts = 2
    /\ requests = 2
    /\ inFlight # {}

\* C13 (as claimed): in a well-formed call, when the response to the first
\* fetch arrives before any outcome and holds under the key an acceptable
\* entry (every field there, data truthy), the call resolves with Success
\* carrying that entry's data and meta and attempts = 1, however long the
\* response took.
C13_FirstFetchReportsOne ==
    ( /\ WellFormedArguments
      /\ CycleRan
      /\ last.cycle = 1
      /\ ~last.settledBefore
      /\ last.result.ok
      /\ last.result.body.kind = "object"
      /\ CycleEntry.present
      /\ ~Falsy(CycleEntry.type)
      /\ ~Falsy(CycleEntry.data)
      /\ CycleEntry.hasMeta
      /\ TypeOf(CycleEntry.timestamp) = "number"
      /\ TypeOf(CycleEntry.expiration) = "number"
      /\ Acceptable(CycleEntry, CycleNow) )
    => /\ promise.kind = "Success"
       /\ promise.data = CycleEntry.data
       /\ promise.timestamp = CycleEntry.timestamp.n
       /\ promise.expiration = CycleEntry.expiration.n
       /\ promise.attempts = 1

\* the effective interval, in milliseconds
IntervalMs == config.interval * MsPerSec

ResolvedEndpoint == OrElse(call.options.endpoint, call.env)

\* well-formed arguments and an endpoint that is a non-empty string
WellFormedCall ==
    /\ WellFormedArguments
    /\ TypeOf(ResolvedEndpoint) = "string"
    /\ ResolvedEndpoint.s # ""

\* C15 (as claimed): a well-formed call that supplies a numeric
\* intervalSeconds polls without error, with an effective period of 1 second
\* when the supplied value is below 1 and of the supplied value otherwise.
C15_IntervalClampedToOne ==
    ( /\ WellFormedCall
      /\ TypeOf(call.options.interval) = "number"
      /\ pc # "init" ) =>
        /\ pc = "polling"
        /\ config.interval =
              IF call.options.interval.n < 1 THEN 1 ELSE call.options.interval.n
        /\ requests = 0 => nextFire = startTime + IntervalMs

\* C16 (as claimed): the endpoint is the override when one is given, else the
\* environment's; a call with well-formed arguments polls that endpoint when
\* it is a non-empty string, and otherwise fails with the configuration error
\* before any timer cycle or fetch.
C16_EndpointMustBeString ==
    (WellFormedArguments /\ pc # "init") =>
        IF TypeOf(ResolvedEndpoint) = "string" /\ ResolvedEndpoint.s # ""
        THEN /\ pc = "polling"
             /\ config.endpoint = ResolvedEndpoint
        ELSE /\ pc = "threw"
             /\ promise.kind = "Rejected"
             /\ promise.error = <<"Endpoint", "HTTP", "nao", "definido">>
             /\ ~timerActive
             /\ requests = 0
             /\ inFlight = {}

\* the defaults the README's basic-usage section documents, in seconds
ReadmeTimeout == 120
ReadmeRetroBack == 60
ReadmeInterval == 5

\* the call supplies only the key and options.type, both non-empty strings
\* (and an endpoint)
OnlyKeyAndType ==
    /\ TypeOf(call.key) = "string" /\ call.key.s # ""
    /\ TypeOf(call.options.type) = "string" /\ call.options.type.s # ""
    /\ call.options.timeout = Undefined
    /\ call.options.retroBack = Undefined
    /\ call.options.interval = Undefined
    /\ TypeOf(ResolvedEndpoint) = "string" /\ ResolvedEndpoint.s # ""

\* C17 (as claimed): a call that supplies only key and options.type passes
\* validation and polls with timeout 120 s, retroBack 60 s and interval 5 s.
C17_DefaultsWhenOmitted ==
    (OnlyKeyAndType /\ pc # "init") =>
        /\ pc = "polling"
        /\ promise.kind # "Rejected"
        /\ config.timeout = ReadmeTimeout
        /\ config.retroBack = ReadmeRetroBack
        /\ config.interval = ReadmeInterval

\* the entry the latest cycle found has every field there and numeric meta
EntryComplete ==
    /\ CycleEntry.present
    /\ TypeOf(CycleEntry.type) # "undefined"
    /\ TypeOf(CycleEntry.data) # "undefined"
    /\ CycleEntry.hasMeta
    /\ TypeOf(CycleEntry.timestamp) = "number"
    /\ TypeOf(CycleEntry.expiration) = "number"

\* the latest step was a cycle, run before any outcome, on a JSON object
PendingObjectCycle ==
    /\ CycleRan
    /\ ~last.settledBefore
    /\ last.result.ok
    /\ last.result.body.kind = "object"

\* C18 (as claimed): in a well-formed call, a cycle whose JSON object has no
\* entry for the key, an incomplete entry or an unacceptable one delivers
\* nothing and leaves the timer armed, and a later cycle that finds an
\* acceptable entry resolves with Success.
C18_SkipThenSuccess ==
    /\ ( /\ WellFormedArguments
         /\ PendingObjectCycle
         /\ ~(EntryComplete /\ Acceptable(CycleEntry, CycleNow)) ) =>
            /\ last.did = "None"
            /\ promise.kind = "None"
            /\ timerActive
    /\ ( /\ WellFormedArguments
         /\ PendingObjectCycle
         /\ last.skippedBefore
         /\ EntryComplete
         /\ Acceptable(CycleEntry, CycleNow) ) =>
            /\ last.did = "Success"
            /\ promise.kind = "Success"
            /\ promise.data = CycleEntry.data

\* the latest step was a cycle whose response had a status outside [200,300)
ErrorStatusSeen ==
    /\ CycleRan
    /\ ~last.result.ok
    /\ Len(last.result.error) >= 2
    /\ last.result.error[1] = "HTTP"

\* C19 (as claimed): the fetcher resolves with the body exactly for the
\* statuses in [200,300) and fails with the status code and text for the
\* others, and in a well-formed call a cycle whose response had another
\* status ends neither in Success nor in a parse error: it delivers nothing.
C19_ErrorStatusNeverFatal ==
    /\ \A r \in Responses :
          LET result == OnEnd(r.statusCode, r.statusMessage, r.data)
          IN  IF r.statusCode \in 200..299
              THEN result.ok /\ result.body = r.data
              ELSE /\ ~result.ok
                   /\ result.error =
                        <<"HTTP", ToString(r.statusCode)>> \o r.statusMessage
    /\ (WellFormedArguments /\ ErrorStatusSeen) =>
          /\ last.did = "None"
          /\ ~last.settledBefore => (promise.kind = "None" /\ timerActive)

\* what the latest cycle would have done in the run that differs only in
\* debug, which up to that cycle saw the same ticks and the same results
IfDebugFlipped ==
    Continuation(last.result, call.key, [config EXCEPT !.debug = ~config.debug],
                 last.nowMs, last.elapsed, attempts)

\* C20 (as claimed): in a well-formed call every cycle does with debug on
\* what it does with debug off: it delivers the same outcome or none, so the
\* two runs make the same fetches, count the same attempts and end alike.
C20_DebugHasNoEffect ==
    (WellFormedArguments /\ CycleRan) =>
        /\ IfDebugFlipped.kind = last.did
        /\ (~last.settledBefore /\ last.did # "None") => IfDebugFlipped = promise

\* the latest step delivered the outcome of the call
DeliveredNow ==
    /\ pc = "polling"
    /\ last.op \in {"tick", "cycle"}
    /\ last.did # "None"
    /\ ~last.settledBefore

\* every tick so far came exactly when it was due, a whole number of
\* intervals after startTime, and no tick is overdue
TicksOnTime ==
    /\ nextFire = startTime + (requests + 1) * IntervalMs
    /\ last.op = "tick" => last.elapsed = (requests + 1) * IntervalMs
    /\ last.op = "cycle" => clock <= nextFire

\* the elapsed time of the first punctual tick that finds the budget spent
FirstBudgetTick ==
    LET k == (TimeoutMs + IntervalMs - 1) \div IntervalMs
    IN  (IF k < 1 THEN 1 ELSE k) * IntervalMs

\* C21: with punctual ticks the outcome of a call, whatever its kind, is
\* delivered no later than the first tick at which elapsed >= timeoutSeconds,
\* which for a positive timeoutSeconds is at an elapsed time below
\* timeoutSeconds + intervalSeconds; Timeout is delivered only with
\* elapsed >= timeoutSeconds; and a cycle that resolves with Success had its
\* fetch initiated while elapsed < timeoutSeconds.
C21_OutcomeWithinBudget ==
    /\ []((DeliveredNow /\ TicksOnTime) =>
            /\ last.elapsed <= FirstBudgetTick
            /\ WellFormedArguments => last.elapsed < TimeoutMs + IntervalMs)
    /\ []((DeliveredNow /\ promise.kind = "Timeout") =>
            /\ last.op = "tick"
            /\ last.elapsed >= TimeoutMs)
    /\ [][(last'.op = "cycle" /\ last'.did = "Success") =>
            \E f \in inFlight :
                /\ f \notin inFlight'
                /\ f.id = last'.cycle
                /\ f.start - startTime < TimeoutMs]_vars

\* a Success delivered, with punctual ticks, at the very instant the tick
\* that would have found the budget spent was due
C21_Witness ==
    /\ WellFormedArguments
    /\ DeliveredNow
    /\ TicksOnTime
    /\ promise.kind = "Success"
    /\ last.elapsed = TimeoutMs
    /\ last.elapsed = FirstBudgetTick

====
